---- MODULE Spec2Model ----
(***************************************************************************)
(* State-machine model of the useAudioAnalyzer hook                        *)
(* (src/src/useAudioAnalyzer.ts): the media element, the analysis context, *)
(* the asynchronous initializeAudio(), the document-level gesture          *)
(* handlers, the overlay click handler, the animation-frame sampling loop  *)
(* and the effect cleanup.  Every await whose promise is settled by a      *)
(* later browser task is a separate action; continuations that run as      *)
(* microtasks of the same task are part of the action that settles them.   *)
(***************************************************************************)
EXTENDS Integers, Sequences, FiniteSets, Bags, TLC

\* ---------------------------------------------------------------- bounds
MaxUrl == 2        \* source identifiers 1..MaxUrl (MaxUrl - 1 identifier changes)
MaxHandlers == 2   \* unlock handlers (gesture / overlay) in flight at once
MaxEvq == 2        \* media-element events queued and not yet dispatched
MaxSc == 1         \* statechange events queued and not yet dispatched
MaxCtx == 2        \* analysis contexts ever constructed in a session
MaxRaf == 2        \* animation-frame callbacks pending at once
MaxSteps == 4      \* sampler ticks plus render frames followed with their numbers

\* ------------------------------------------------------------- constants
GestureTypes == {"click", "keydown", "touchstart", "mousedown", "pointerdown"}
CtxStates == {"suspended", "running", "closed"}
\* the context captured by the closures of initializeAudio (const audioContext)
InitCtx == 1
\* an in-flight call of handleUserInteraction ("gesture") or startAudioOnClick
\* ("overlay"): the await it is suspended at and the context whose resume() it awaits
HandlerRecs == [kind : {"gesture", "overlay"},
                pc : {"awaitResume", "awaitPlay"},
                ctx : 0..MaxCtx]
\* analyzer.fftSize; the frame (dataArray) has frequencyBinCount = fftSize / 2 bins
FftSize == 256
frequencyBinCount == FftSize \div 2
Bins == 0..(frequencyBinCount - 1)
\* the largest byte of a frame, the divisor of calculateBand and of the RMS volume
MaxSampleValue == 255
\* audioContext.sampleRate of the machine
SampleRates == {44100, 48000}
Channels == {"volume", "bass", "mid", "treble"}

VARIABLES
  audioUrl,           \* the hook's current audioUrl argument (1, 2, ...: each change runs the cleanup)
  isInitializedRef,   \* isInitializedRef.current
  audioRef,           \* audioRef.current: 0 = null, else the url the element was built for
  paused,             \* audio.paused
  muted,              \* audio.muted
  ctxState,           \* state of every AudioContext constructed so far
  audioContextRef,    \* audioContextRef.current: 0 = null, else index into ctxState
  analyzerRef,        \* analyzerRef.current / dataArrayRef.current: context owning the analyser
  animationFrameRef,  \* animationFrameRef.current: 0 = null, 1 = id of the last requested frame
  rafRefLive,         \* the frame animationFrameRef names is still pending
  rafPending,         \* number of pending analyzeAudio animation-frame callbacks
  initPc,             \* position of initializeAudio()
  initAborted,        \* the play promise awaited by startAudio was aborted by pause()
  handlers,           \* bag of the in-flight handleUserInteraction / startAudioOnClick calls
  listeners,          \* document-level gesture listeners currently registered
  overlay,            \* "none" | "present" | "removed"
  overlayOnce,        \* the {once: true} play listener that removes the overlay is armed
  mediaEvq,           \* queued media-element events ("play" / "pause")
  scPending,          \* queued statechange events of the InitCtx context
  audioData,          \* the published AudioSignal (React state)
  caught,             \* the last step ended in the catch block of handleUserInteraction
  everRunning,        \* history: the gate has been Running in some state so far
  sampleRate,         \* audioContextRef.current.sampleRate
  dataArray,          \* dataArrayRef.current: the frame last pulled from the analyser
  smoothedValues,     \* smoothedValues.current of the hook
  smoothedAudioValues,\* smoothedAudioValues.current of the renderer (useFrame)
  nSteps              \* sampler ticks and render frames taken by SampleTick / RenderFrame

vars == <<audioUrl, isInitializedRef, audioRef, paused,
          muted, ctxState, audioContextRef, analyzerRef, animationFrameRef, rafRefLive,
          rafPending, initPc, initAborted, handlers, listeners, overlay, overlayOnce,
          mediaEvq, scPending, audioData, caught, everRunning, sampleRate, dataArray,
          smoothedValues, smoothedAudioValues, nSteps>>


\* ------------------------------------------------------- exact numbers
\* The numeric fields are kept as exact fractions [n |-> numerator, d |->
\* denominator] in lowest terms; Math.sqrt is the one operation that is rounded.

RECURSIVE GCD(_, _)
GCD(a, b) == IF b = 0 THEN a ELSE GCD(b, a % b)

Abs(x) == IF x < 0 THEN -x ELSE x

Min(a, b) == IF a < b THEN a ELSE b

\* the number n / d in lowest terms with a positive denominator
Rat(n, d) ==
  LET g == GCD(Abs(n), Abs(d))
      sgn == IF d < 0 THEN -1 ELSE 1
  IN  [n |-> sgn * (n \div g), d |-> sgn * (d \div g)]

IsRat(x) == x \in [n : Int, d : Nat \ {0}]

RAdd(x, y) ==
  LET g == GCD(x.d, y.d)
  IN  Rat(x.n * (y.d \div g) + y.n * (x.d \div g), (x.d \div g) * y.d)

RSub(x, y) == RAdd(x, [n |-> -y.n, d |-> y.d])

RMul(x, y) ==
  LET a == Rat(x.n, y.d)
      b == Rat(y.n, x.d)
  IN  [n |-> a.n * b.n, d |-> a.d * b.d]

RLess(x, y) ==
  LET g == GCD(x.d, y.d)
  IN  x.n * (y.d \div g) < y.n * (x.d \div g)

RLeq(x, y) == ~RLess(y, x)

Zero == Rat(0, 1)
One == Rat(1, 1)

\* the largest r in lo..hi with r * r <= n, found by bisection
RECURSIVE IsqrtIn(_, _, _)
IsqrtIn(n, lo, hi) ==
  IF lo = hi THEN lo
  ELSE LET m == (lo + hi + 1) \div 2
       IN  IF m * m <= n THEN IsqrtIn(n, m, hi) ELSE IsqrtIn(n, lo, m - 1)

\* Math.sqrt of a nonnegative integer, rounded down to an integer
Isqrt(n) == IsqrtIn(n, 0, 16 * MaxSampleValue)

\* the for loops that add up g[i] for lo <= i < hi
RECURSIVE SumRange(_, _, _)
SumRange(g, lo, hi) ==
  IF hi <= lo THEN 0
  ELSE IF hi = lo + 1 THEN g[lo]
  ELSE LET m == (lo + hi) \div 2 IN SumRange(g, lo, m) + SumRange(g, m, hi)

\* ------------------------------------------------------- the sampler's arithmetic

MutBandInclusiveEnd(data, startIndex, endIndex) ==
  Rat(SumRange(data, startIndex, Min(endIndex + 1, frequencyBinCount)),
      (endIndex - startIndex) * MaxSampleValue)

MutBandNotNormalised(data, startIndex, endIndex) ==
  Rat(SumRange(data, startIndex, Min(endIndex, frequencyBinCount)),
      endIndex - startIndex)

\* calculateBand: sum over startIndex <= i < endIndex, i < dataArray.length,
\* divided by count = endIndex - startIndex and by 255
calculateBand(data, startIndex, endIndex) ==
  Rat(SumRange(data, startIndex, Min(endIndex, frequencyBinCount)),
      (endIndex - startIndex) * MaxSampleValue)

\* rawVolume = Math.sqrt(sum of squares / length) / 255; with length = 128 this is
\* Math.sqrt(2 * sum) / (16 * 255), and the square root is rounded down to an integer
rawVolume(data) ==
  Rat(Isqrt(2 * SumRange([i \in Bins |-> data[i] * data[i]], 0, frequencyBinCount)),
      16 * MaxSampleValue)

\* rawVolume, rawBass, rawMid, rawTreble of analyzeAudio
RawValues(data) ==
  [volume |-> rawVolume(data),
   bass   |-> calculateBand(data, 0, 10),
   mid    |-> calculateBand(data, 10, 40),
   treble |-> calculateBand(data, 40, 128)]

\* the dominant-frequency loop over lo <= i < hi: a later bin replaces the
\* candidate only when its value is strictly larger
RECURSIVE MaxIndexIn(_, _, _)
MaxIndexIn(data, lo, hi) ==
  IF hi = lo + 1 THEN lo
  ELSE LET m == (lo + hi) \div 2
           l == MaxIndexIn(data, lo, m)
           r == MaxIndexIn(data, m, hi)
       IN  IF data[r] > data[l] THEN r ELSE l

\* maxIndex after the loop: it starts from maxValue = 0, maxIndex = 0, so it is the
\* first bin holding the largest value, and bin 0 when every bin is 0
MaxIndex(data) == MaxIndexIn(data, 0, frequencyBinCount)

\* frames the analyser hands out: every bin a; one bin a over a floor; bass bins
\* only; one level for each of the bins 0..9, 10..39 and 40..127
Uniform(a) == [i \in Bins |-> a]
Peak(k, a, floor) == [i \in Bins |-> IF i = k THEN a ELSE floor]
BassOnly(a) == [i \in Bins |-> IF i < 10 THEN a ELSE 0]
Levels(a, b, c) == [i \in Bins |-> IF i < 10 THEN a ELSE IF i < 40 THEN b ELSE c]
Silence == Uniform(0)
Frames ==
  {Silence, Uniform(MaxSampleValue), BassOnly(MaxSampleValue),
   Levels(51, 204, MaxSampleValue),
   Peak(3, MaxSampleValue, 0), Peak(64, MaxSampleValue, 0)}

\* what one run of analyzeAudio measures on each frame: the four raw values and
\* maxIndex
Measured == [f \in Frames |-> [raw |-> RawValues(f), maxIndex |-> MaxIndex(f)]]

MutFactorsSwapped ==
  [volume |-> Rat(85, 100), bass |-> Rat(80, 100),
   mid |-> Rat(70, 100), treble |-> Rat(60, 100)]

\* smoothingFactors.current
smoothingFactors ==
  [volume |-> Rat(80, 100), bass |-> Rat(85, 100),
   mid |-> Rat(70, 100), treble |-> Rat(60, 100)]

MutEmaAddsRaw(prev, raw, factor) == RAdd(RMul(prev, factor), raw)

\* one channel of the exponential moving average of analyzeAudio
Ema(prev, raw, factor) == RAdd(RMul(prev, factor), RMul(raw, RSub(One, factor)))

\* smoothedValues.current after a tick on the frame data
Smoothed(sv, data) ==
  LET raw == Measured[data].raw
  IN  [c \in Channels |-> Ema(sv[c], raw[c], smoothingFactors[c])]

MutFrequencyFullRate(data, rate) ==
  Rat(Measured[data].maxIndex * rate, frequencyBinCount * 1000)

\* frequency / 1000 with frequency = (maxIndex / length) * (sampleRate / 2)
FrequencyKHz(data, rate) ==
  Rat(Measured[data].maxIndex * rate, frequencyBinCount * 2 * 1000)

\* ------------------------------------------------------- the renderer's arithmetic
\* useFrame of the Experiment component that consumes audioData

\* the leva controls at their defaults
volumeMultipliers ==
  [volume |-> Rat(12, 10), bass |-> Rat(11, 10), mid |-> Rat(13, 10), treble |-> Rat(8, 10)]
audioSmoothness == Rat(95, 100)
fadeOutSpeed == Rat(95, 100)
SilenceThreshold == Rat(1, 100)

MutHasAudioIgnoresGate(ad) == RLess(SilenceThreshold, ad.volume)

\* hasAudio = audioData.isPlaying && audioData.volume > 0.01
HasAudio(ad) == ad.isPlaying /\ RLess(SilenceThreshold, ad.volume)

MutRenderedAlwaysBlends(sav, ad) ==
  [c \in Channels |->
     Ema(sav[c], RMul(ad[c], volumeMultipliers[c]), audioSmoothness)]

\* smoothedAudioValues.current after a frame that sees the signal ad
Rendered(sav, ad) ==
  IF ~HasAudio(ad)
    THEN [c \in Channels |-> RMul(sav[c], fadeOutSpeed)]
    ELSE [c \in Channels |->
            Ema(sav[c], RMul(ad[c], volumeMultipliers[c]), audioSmoothness)]

AllZero == [c \in Channels |-> Zero]

\* ------------------------------------------------------- pure helpers

\* analyzeAudio: Boolean(audioRef.current && !audioRef.current.paused &&
\*                       audioContextRef.current?.state === 'running')
TickIsPlaying(aRef, p, cRef, cs) ==
  aRef # 0 /\ ~p /\ cRef # 0 /\ cs[cRef] = "running"

\* mutants of HandlerIsPlaying: the context is not consulted / the pause flag is
\* read without its negation
MutHandlerIgnoresContext(p, cs) == ~p
MutHandlerPausedFlipped(p, cs) == p /\ cs[InitCtx] = "running"

\* play / statechange listeners: !audio.paused && audioContext.state === 'running',
\* audio and audioContext being the closure constants of initializeAudio
HandlerIsPlaying(p, cs) ==
  ~p /\ cs[InitCtx] = "running"

\* mutant of RemoveGestureListeners: only the click listener is removed
MutRemoveClickOnly(ls) == ls \ {"click"}

\* the five document.removeEventListener calls after a successful play
RemoveGestureListeners(ls) ==
  ls \ {"click", "keydown", "touchstart", "mousedown", "pointerdown"}

\* the five document.addEventListener calls at the end of initializeAudio
AddGestureListeners(ls) ==
  ls \cup {"click", "keydown", "touchstart", "mousedown", "pointerdown"}

\* mutant of CleanupContexts: the cleanup closes every context
MutCleanupCloses(cs) == [i \in DOMAIN cs |-> "closed"]

\* what the effect cleanup does to the analysis contexts: nothing (close() is commented out)
CleanupContexts(cs) == cs

\* one handler record more / less in the bag
AddHandler(hs, r) == hs (+) SetToBag({r})
DropHandler(hs, r) == hs (-) SetToBag({r})

\* media element pause(): the play promises pending at the call are rejected with
\* the pause event; in a handler the rejection only reaches the catch block, which
\* changes no state, so the handler is over as soon as pause() is called
AbortHandlers(hs) ==
  [r \in {q \in BagToSet(hs) : q.pc # "awaitPlay"} |-> hs[r]]

\* the effect has run / its cleanup has run at least once
mounted == initPc # "none"
tornDown == audioUrl > 1

TypeOK ==
  /\ audioUrl \in 1..MaxUrl
  /\ isInitializedRef \in BOOLEAN
  /\ audioRef \in 0..MaxUrl
  /\ paused \in BOOLEAN /\ muted \in BOOLEAN
  /\ ctxState \in Seq(CtxStates) /\ Len(ctxState) <= MaxCtx
  /\ audioContextRef \in 0..Len(ctxState)
  /\ analyzerRef \in 0..Len(ctxState)
  /\ animationFrameRef \in {0, 1}
  /\ rafRefLive \in BOOLEAN
  /\ rafPending \in 0..MaxRaf
  /\ initPc \in {"none", "awaitReady", "awaitPlay", "done", "failed"}
  /\ initAborted \in BOOLEAN
  /\ IsABag(handlers) /\ BagToSet(handlers) \subseteq HandlerRecs
  /\ BagCardinality(handlers) <= MaxHandlers
  /\ listeners \subseteq GestureTypes
  /\ overlay \in {"none", "present", "removed"}
  /\ overlayOnce \in BOOLEAN
  /\ mediaEvq \in Seq({"play", "pause"}) /\ Len(mediaEvq) <= MaxEvq
  /\ scPending \in 0..MaxSc
  /\ DOMAIN audioData = Channels \cup {"frequency", "isPlaying"}
  /\ audioData.isPlaying \in BOOLEAN
  /\ \A c \in Channels \cup {"frequency"} : IsRat(audioData[c])
  /\ caught \in BOOLEAN
  /\ everRunning \in BOOLEAN
  /\ sampleRate \in SampleRates
  /\ dataArray \in [Bins -> 0..MaxSampleValue]
  /\ \A c \in Channels : IsRat(smoothedValues[c]) /\ IsRat(smoothedAudioValues[c])
  /\ nSteps \in 0..MaxSteps

Init ==
  /\ audioUrl = 1
  /\ isInitializedRef = FALSE
  /\ audioRef = 0
  /\ paused = TRUE /\ muted = FALSE
  /\ ctxState = <<>>
  /\ audioContextRef = 0 /\ analyzerRef = 0
  /\ animationFrameRef = 0 /\ rafRefLive = FALSE /\ rafPending = 0
  /\ initPc = "none" /\ initAborted = FALSE
  /\ handlers = EmptyBag
  /\ listeners = {}
  /\ overlay = "none" /\ overlayOnce = FALSE
  /\ mediaEvq = <<>> /\ scPending = 0
  /\ audioData = [volume |-> Zero, frequency |-> Zero, bass |-> Zero,
                  mid |-> Zero, treble |-> Zero, isPlaying |-> FALSE]
  /\ caught = FALSE
  /\ everRunning = FALSE
  /\ sampleRate = 44100
  /\ dataArray = Silence
  /\ smoothedValues = AllZero
  /\ smoothedAudioValues = AllZero
  /\ nSteps = 0

\* --------------------------------------------------- shared step parts

\* the session's current analysis context is running
ContextRunning == audioContextRef # 0 /\ ctxState[audioContextRef] = "running"

\* the Playback Gate is Running: element unpaused, current context running
GateRunning == audioRef # 0 /\ ~paused /\ ContextRunning

\* history of the gate, recorded by every step
History == everRunning' = (everRunning \/ GateRunning')

\* what every step of the hook leaves as it was
Rest == History /\ UNCHANGED <<sampleRate, smoothedAudioValues, nSteps>>

\* a step that does not run analyzeAudio
Unsampled == UNCHANGED <<dataArray, smoothedValues>>

\* the body of analyzeAudio on the frame data: pull the frame, smooth, publish,
\* request the next animation frame
analyzeAudio(data) ==
  /\ dataArray' = data
  /\ smoothedValues' = Smoothed(smoothedValues, data)
  /\ audioData' =
       [volume |-> smoothedValues'.volume,
        frequency |-> FrequencyKHz(data, sampleRate),
        bass |-> smoothedValues'.bass,
        mid |-> smoothedValues'.mid,
        treble |-> smoothedValues'.treble,
        isPlaying |-> TickIsPlaying(audioRef, paused, audioContextRef, ctxState)]
  /\ animationFrameRef' = 1
  /\ rafRefLive' = TRUE

\* the tail of initializeAudio after startAudio(): gesture listeners, overlay,
\* overlay click listener and the {once: true} play listener
FinishInit ==
  /\ initPc' = "done"
  /\ listeners' = AddGestureListeners(listeners)
  /\ overlay' = "present"
  /\ overlayOnce' = TRUE

\* HTMLMediaElement.play() that is allowed: unpauses and queues a play event
\* when the element was paused; its promise settles in a later task
PlayQueue == IF paused THEN Append(mediaEvq, "play") ELSE mediaEvq

\* the unlock sequence after ensureAudioContextActive(): unmute, rewind, play().
\* hs: the other handlers in flight.  ok = FALSE: play() is refused at once and the
\* catch block ends the handler
PlayPart(hs, kind, ok) ==
  /\ ok /\ paused => Len(mediaEvq) < MaxEvq
  /\ muted' = FALSE
  /\ paused' = IF ok THEN FALSE ELSE paused
  /\ mediaEvq' = IF ok THEN PlayQueue ELSE mediaEvq
  /\ handlers' = IF ok THEN AddHandler(hs, [kind |-> kind, pc |-> "awaitPlay", ctx |-> 0])
                        ELSE hs
  /\ caught' = (~ok /\ kind = "gesture")

\* the effect cleanup: cancelAnimationFrame, pause(); the context is left alone
Cleanup ==
  /\ ~paused => Len(mediaEvq) < MaxEvq
  /\ UNCHANGED animationFrameRef
  /\ rafRefLive' = IF animationFrameRef # 0 THEN FALSE ELSE rafRefLive
  /\ rafPending' = IF animationFrameRef # 0 /\ rafRefLive THEN rafPending - 1 ELSE rafPending
  /\ paused' = IF audioRef # 0 THEN TRUE ELSE paused
  /\ mediaEvq' = IF audioRef # 0 /\ ~paused THEN Append(mediaEvq, "pause") ELSE mediaEvq
  /\ handlers' = IF audioRef # 0 /\ ~paused THEN AbortHandlers(handlers) ELSE handlers
  /\ initAborted' = IF audioRef # 0 /\ ~paused /\ initPc = "awaitPlay" THEN TRUE ELSE initAborted
  /\ ctxState' = CleanupContexts(ctxState)

\* ------------------------------------------------------------- actions

\* mutant of Mount: the gesture listeners are registered before the readiness wait
MutMountListensEarly ==
  /\ initPc = "none"
  /\ ~isInitializedRef
  /\ audioRef' = audioUrl
  /\ paused' = TRUE
  /\ muted' = FALSE
  /\ ctxState' = Append(ctxState, "suspended")
  /\ audioContextRef' = Len(ctxState) + 1
  /\ analyzerRef' = Len(ctxState) + 1
  /\ isInitializedRef' = TRUE
  /\ initPc' = "awaitReady"
  /\ listeners' = AddGestureListeners(listeners)
  /\ caught' = FALSE
  /\ UNCHANGED <<audioUrl, animationFrameRef, rafRefLive, rafPending,
                 initAborted, handlers, overlay, overlayOnce, mediaEvq,
                 scPending, audioData>>
  /\ Unsampled /\ Rest

\* first run of the effect: initializeAudio() up to its await on readiness
Mount ==
  /\ initPc = "none"
  /\ ~isInitializedRef
  /\ audioRef' = audioUrl
  /\ paused' = TRUE
  /\ muted' = FALSE
  /\ ctxState' = Append(ctxState, "suspended")   \* a new context starts later, if allowed
  /\ audioContextRef' = Len(ctxState) + 1
  /\ analyzerRef' = Len(ctxState) + 1
  /\ isInitializedRef' = TRUE
  /\ initPc' = "awaitReady"
  /\ caught' = FALSE
  /\ UNCHANGED <<audioUrl, animationFrameRef, rafRefLive, rafPending,
                 initAborted, handlers, listeners, overlay, overlayOnce, mediaEvq,
                 scPending, audioData>>
  /\ Unsampled /\ Rest

\* the identifier changes: cleanup of the old effect, then the effect runs again
\* and calls initializeAudio(), which returns at once when isInitializedRef is set
ChangeSource ==
  /\ initPc # "none"
  /\ audioUrl < MaxUrl
  /\ audioUrl' = audioUrl + 1
  /\ Cleanup
  /\ isInitializedRef    \* set by the first run and never cleared: nothing is rebuilt
  /\ UNCHANGED <<audioRef, audioContextRef, analyzerRef, isInitializedRef, initPc>>
  /\ caught' = FALSE
  /\ UNCHANGED <<muted, listeners, overlay, overlayOnce, scPending, audioData>>
  /\ Unsampled /\ Rest

\* mutant of StartAudio: a refused play() is not caught, initializeAudio() rejects
MutStartAudioThrows ==
  /\ initPc = "awaitReady"
  /\ \E ok \in BOOLEAN :
       /\ ok /\ paused => Len(mediaEvq) < MaxEvq
       /\ muted' = TRUE
       /\ paused' = IF ok THEN FALSE ELSE paused
       /\ mediaEvq' = IF ok THEN PlayQueue ELSE mediaEvq
       /\ initPc' = IF ok THEN "awaitPlay" ELSE "failed"
       /\ UNCHANGED <<listeners, overlay, overlayOnce>>
  /\ initAborted' = FALSE
  /\ caught' = FALSE
  /\ UNCHANGED <<audioUrl, isInitializedRef, audioRef, ctxState,
                 audioContextRef, analyzerRef, animationFrameRef, rafRefLive, rafPending,
                 handlers, scPending, audioData>>
  /\ Unsampled /\ Rest

\* startAudio(): mute, rewind, play(); ok = FALSE is the autoplay refusal, caught
StartAudio ==
  /\ initPc = "awaitReady"
  /\ \E ok \in BOOLEAN :
       /\ ok /\ paused => Len(mediaEvq) < MaxEvq
       /\ muted' = TRUE
       /\ paused' = IF ok THEN FALSE ELSE paused
       /\ mediaEvq' = IF ok THEN PlayQueue ELSE mediaEvq
       /\ IF ok THEN /\ initPc' = "awaitPlay"
                     /\ UNCHANGED <<listeners, overlay, overlayOnce>>
               ELSE FinishInit
  /\ initAborted' = FALSE
  /\ caught' = FALSE
  /\ UNCHANGED <<audioUrl, isInitializedRef, audioRef, ctxState,
                 audioContextRef, analyzerRef, animationFrameRef, rafRefLive, rafPending,
                 handlers, scPending, audioData>>
  /\ Unsampled /\ Rest

\* the readiness wait ends by the loadeddata event
ReadyLoadedData == StartAudio

MutReadyTimeoutMissing == FALSE /\ StartAudio

\* the readiness wait ends by the 3000 ms timeout
ReadyTimeout == StartAudio

\* mutant of ReadyError: the rejection is swallowed and the tail of
\* initializeAudio() registers the gesture listeners and the overlay
MutReadyErrorStillListens ==
  /\ initPc = "awaitReady"
  /\ initPc' = "failed"
  /\ listeners' = AddGestureListeners(listeners)
  /\ overlay' = "present"
  /\ caught' = FALSE
  /\ UNCHANGED <<audioUrl, isInitializedRef, audioRef, paused, muted,
                 ctxState, audioContextRef, analyzerRef, animationFrameRef, rafRefLive,
                 rafPending, initAborted, handlers, overlayOnce,
                 mediaEvq, scPending, audioData>>
  /\ Unsampled /\ Rest

\* the readiness wait ends by an error event: the promise rejects and
\* initializeAudio() rejects with it
ReadyError ==
  /\ initPc = "awaitReady"
  /\ initPc' = "failed"
  /\ caught' = FALSE
  /\ UNCHANGED <<audioUrl, isInitializedRef, audioRef, paused, muted,
                 ctxState, audioContextRef, analyzerRef, animationFrameRef, rafRefLive,
                 rafPending, initAborted, handlers, listeners, overlay, overlayOnce,
                 mediaEvq, scPending, audioData>>
  /\ Unsampled /\ Rest

\* the play promise of startAudio() resolves: startAudio returns false all the same.
\* The promise is resolved by a task of the element's own queue, queued after the
\* play event of the same play() call.
InitPlayResolved ==
  /\ initPc = "awaitPlay" /\ ~initAborted /\ ~paused
  /\ mediaEvq = <<>>
  /\ FinishInit
  /\ caught' = FALSE
  /\ UNCHANGED <<audioUrl, isInitializedRef, audioRef, paused, muted,
                 ctxState, audioContextRef, analyzerRef, animationFrameRef, rafRefLive,
                 rafPending, initAborted, handlers, mediaEvq, scPending, audioData>>
  /\ Unsampled /\ Rest

\* the play promise of startAudio() rejects (load failure): caught, returns false
InitPlayRejected ==
  /\ initPc = "awaitPlay" /\ ~initAborted
  /\ mediaEvq = <<>>      \* rejected by a task queued after the play event
  /\ FinishInit
  /\ caught' = FALSE
  /\ UNCHANGED <<audioUrl, isInitializedRef, audioRef, paused, muted,
                 ctxState, audioContextRef, analyzerRef, animationFrameRef, rafRefLive,
                 rafPending, initAborted, handlers, mediaEvq, scPending, audioData>>
  /\ Unsampled /\ Rest

\* handleUserInteraction / startAudioOnClick up to their first pending await:
\* ensureAudioContextActive() by the state of audioContextRef.current, then the
\* unlock sequence when nothing had to be awaited
UnlockStart(kind) ==
  /\ BagCardinality(handlers) < MaxHandlers
  /\ audioRef # 0 /\ audioContextRef # 0
  /\ LET c == audioContextRef
     IN  \/ /\ ctxState[c] = "suspended"      \* await audioContext.resume()
            /\ handlers' = AddHandler(handlers,
                                      [kind |-> kind, pc |-> "awaitResume", ctx |-> c])
            /\ caught' = FALSE
            /\ UNCHANGED <<paused, muted, mediaEvq, ctxState, audioContextRef, analyzerRef>>
         \/ /\ ctxState[c] = "running"        \* returns true at once
            /\ \E ok \in BOOLEAN : PlayPart(handlers, kind, ok)
            /\ UNCHANGED <<ctxState, audioContextRef, analyzerRef>>
         \/ /\ ctxState[c] = "closed"         \* a new context and analyser are built
            /\ Len(ctxState) < MaxCtx
            /\ ctxState' = Append(ctxState, "suspended")
            /\ audioContextRef' = Len(ctxState) + 1
            /\ analyzerRef' = Len(ctxState) + 1
            /\ \E ok \in BOOLEAN : PlayPart(handlers, kind, ok)
         \/ /\ ctxState[c] = "closed"         \* createMediaElementSource throws: the element
            /\ Len(ctxState) < MaxCtx         \* already feeds a source node; caught by the handler
            /\ ctxState' = Append(ctxState, "suspended")
            /\ audioContextRef' = Len(ctxState) + 1
            /\ caught' = (kind = "gesture")
            /\ UNCHANGED <<analyzerRef, paused, muted, mediaEvq, handlers>>
  /\ UNCHANGED <<audioUrl, isInitializedRef, audioRef, animationFrameRef,
                 rafRefLive, rafPending, initPc, initAborted, listeners, overlay,
                 overlayOnce, scPending, audioData>>

\* a document-level gesture event of type t reaches handleUserInteraction
GestureEvent(t) ==
  /\ t \in listeners
  /\ UnlockStart("gesture")
  /\ Unsampled /\ Rest

\* a click on the overlay reaches startAudioOnClick
OverlayClick ==
  /\ overlay = "present"
  /\ UnlockStart("overlay")
  /\ Unsampled /\ Rest

\* audioContext.resume() awaited by handler r resolves: the context runs, a
\* statechange event is queued, and the handler goes on to the unlock sequence
ResumeResolved(r) ==
  /\ BagIn(r, handlers) /\ r.pc = "awaitResume"
  /\ LET c == r.ctx
     IN  /\ ctxState[c] # "closed"
         /\ (c = InitCtx /\ ctxState[c] # "running") => scPending < MaxSc
         /\ ctxState' = [ctxState EXCEPT ![c] = "running"]
         /\ scPending' = IF c = InitCtx /\ ctxState[c] # "running"
                           THEN scPending + 1 ELSE scPending
  /\ \E ok \in BOOLEAN : PlayPart(DropHandler(handlers, r), r.kind, ok)
  /\ UNCHANGED <<audioUrl, isInitializedRef, audioRef, audioContextRef,
                 analyzerRef, animationFrameRef, rafRefLive, rafPending, initPc,
                 initAborted, listeners, overlay, overlayOnce, audioData>>
  /\ Unsampled /\ Rest

\* audioContext.resume() awaited by handler r rejects: caught, the handler ends
ResumeRejected(r) ==
  /\ BagIn(r, handlers) /\ r.pc = "awaitResume"
  /\ handlers' = DropHandler(handlers, r)
  /\ caught' = (r.kind = "gesture")
  /\ UNCHANGED <<audioUrl, isInitializedRef, audioRef, paused, muted,
                 ctxState, audioContextRef, analyzerRef, animationFrameRef, rafRefLive,
                 rafPending, initPc, initAborted, listeners, overlay, overlayOnce,
                 mediaEvq, scPending, audioData>>
  /\ Unsampled /\ Rest

\* the play promise awaited by handler r resolves: a gesture handler removes the
\* five document listeners, the overlay handler removes the overlay
PlayResolved(r) ==
  /\ BagIn(r, handlers) /\ r.pc = "awaitPlay" /\ ~paused
  /\ mediaEvq = <<>>      \* resolved by a task queued after the play event
  /\ handlers' = DropHandler(handlers, r)
  /\ listeners' = IF r.kind = "gesture"
                    THEN RemoveGestureListeners(listeners) ELSE listeners
  /\ overlay' = IF r.kind = "overlay" THEN "removed" ELSE overlay
  /\ caught' = FALSE
  /\ UNCHANGED <<audioUrl, isInitializedRef, audioRef, paused, muted,
                 ctxState, audioContextRef, analyzerRef, animationFrameRef, rafRefLive,
                 rafPending, initPc, initAborted, overlayOnce, mediaEvq, scPending,
                 audioData>>
  /\ Unsampled /\ Rest

\* mutant of PlayRejected: the listeners are removed on failure as well
MutPlayRejectedRemoves(r) ==
  /\ BagIn(r, handlers) /\ r.pc = "awaitPlay"
  /\ mediaEvq = <<>>
  /\ handlers' = DropHandler(handlers, r)
  /\ listeners' = IF r.kind = "gesture"
                    THEN RemoveGestureListeners(listeners) ELSE listeners
  /\ caught' = (r.kind = "gesture")
  /\ UNCHANGED <<audioUrl, isInitializedRef, audioRef, paused, muted,
                 ctxState, audioContextRef, analyzerRef, animationFrameRef, rafRefLive,
                 rafPending, initPc, initAborted, overlay, overlayOnce,
                 mediaEvq, scPending, audioData>>
  /\ Unsampled /\ Rest

\* the play promise awaited by handler r rejects (load failure): caught
PlayRejected(r) ==
  /\ BagIn(r, handlers) /\ r.pc = "awaitPlay"
  /\ mediaEvq = <<>>      \* rejected by a task queued after the play event
  /\ handlers' = DropHandler(handlers, r)
  /\ caught' = (r.kind = "gesture")
  /\ UNCHANGED <<audioUrl, isInitializedRef, audioRef, paused, muted,
                 ctxState, audioContextRef, analyzerRef, animationFrameRef, rafRefLive,
                 rafPending, initPc, initAborted, listeners, overlay, overlayOnce,
                 mediaEvq, scPending, audioData>>
  /\ Unsampled /\ Rest

MutCanAnalyzeNever == FALSE

\* startAnalysis() runs analyzeAudio() once, which publishes and requests a frame
\* (analyzeAudio returns before that when a ref is null)
CanAnalyze == analyzerRef # 0 /\ audioContextRef # 0

\* mutant of PlayEvent: the play listener calls startAnalysis() whether or not a
\* frame has been requested before
MutPlayEventAlwaysStarts ==
  /\ mediaEvq # <<>> /\ Head(mediaEvq) = "play"
  /\ mediaEvq' = Tail(mediaEvq)
  /\ LET start == CanAnalyze
     IN  /\ start => rafPending < MaxRaf
         /\ IF start
              THEN analyzeAudio(Silence)
              ELSE /\ audioData' = [audioData EXCEPT
                                      !.isPlaying = HandlerIsPlaying(paused, ctxState)]
                   /\ UNCHANGED <<animationFrameRef, rafRefLive>>
                   /\ Unsampled
         /\ rafPending' = IF start THEN rafPending + 1 ELSE rafPending
  /\ overlayOnce' = FALSE
  /\ overlay' = IF overlayOnce /\ overlay = "present" THEN "removed" ELSE overlay
  /\ caught' = FALSE
  /\ UNCHANGED <<audioUrl, isInitializedRef, audioRef, paused, muted,
                 ctxState, audioContextRef, analyzerRef, initPc, initAborted, handlers,
                 listeners, scPending>>
  /\ Rest

\* the play event is dispatched: the play listener of initializeAudio, then its
\* {once: true} listener that removes the overlay
PlayEvent ==
  /\ mediaEvq # <<>> /\ Head(mediaEvq) = "play"
  /\ mediaEvq' = Tail(mediaEvq)
  /\ LET start == animationFrameRef = 0 /\ CanAnalyze
     IN  /\ start => rafPending < MaxRaf
         /\ IF start
              THEN analyzeAudio(Silence)
              ELSE /\ audioData' = [audioData EXCEPT
                                      !.isPlaying = HandlerIsPlaying(paused, ctxState)]
                   /\ UNCHANGED <<animationFrameRef, rafRefLive>>
                   /\ Unsampled
         /\ rafPending' = IF start THEN rafPending + 1 ELSE rafPending
  /\ overlayOnce' = FALSE
  /\ overlay' = IF overlayOnce /\ overlay = "present" THEN "removed" ELSE overlay
  /\ caught' = FALSE
  /\ UNCHANGED <<audioUrl, isInitializedRef, audioRef, paused, muted,
                 ctxState, audioContextRef, analyzerRef, initPc, initAborted, handlers,
                 listeners, scPending>>
  /\ Rest

\* mutant of PauseEvent: the pause listener cancels the pending frame
MutPauseEventCancels ==
  /\ mediaEvq # <<>> /\ Head(mediaEvq) = "pause"
  /\ mediaEvq' = Tail(mediaEvq)
  /\ audioData' = [audioData EXCEPT !.isPlaying = FALSE]
  /\ initAborted' = FALSE
  /\ IF initAborted /\ initPc = "awaitPlay"
       THEN FinishInit
       ELSE UNCHANGED <<initPc, listeners, overlay, overlayOnce>>
  /\ caught' = FALSE
  /\ rafRefLive' = IF animationFrameRef # 0 THEN FALSE ELSE rafRefLive
  /\ rafPending' = IF animationFrameRef # 0 /\ rafRefLive THEN rafPending - 1 ELSE rafPending
  /\ UNCHANGED <<audioUrl, isInitializedRef, audioRef, paused, muted,
                 ctxState, audioContextRef, analyzerRef, animationFrameRef,
                 handlers, scPending>>
  /\ Unsampled /\ Rest

\* the pause event is dispatched: the pause listener publishes isPlaying false; the
\* play promise of startAudio() aborted by the pause() rejects in the same task, is
\* caught, and initializeAudio() goes on to its tail
PauseEvent ==
  /\ mediaEvq # <<>> /\ Head(mediaEvq) = "pause"
  /\ mediaEvq' = Tail(mediaEvq)
  /\ audioData' = [audioData EXCEPT !.isPlaying = FALSE]
  /\ initAborted' = FALSE
  /\ IF initAborted /\ initPc = "awaitPlay"
       THEN FinishInit
       ELSE UNCHANGED <<initPc, listeners, overlay, overlayOnce>>
  /\ caught' = FALSE
  /\ UNCHANGED <<audioUrl, isInitializedRef, audioRef, paused, muted,
                 ctxState, audioContextRef, analyzerRef, animationFrameRef, rafRefLive,
                 rafPending, handlers, scPending>>
  /\ Unsampled /\ Rest

\* a statechange event of the first context is dispatched to the listener of
\* initializeAudio
StateChangeEvent ==
  /\ scPending > 0
  /\ scPending' = scPending - 1
  /\ LET isActuallyPlaying == HandlerIsPlaying(paused, ctxState)
         start == isActuallyPlaying /\ animationFrameRef = 0 /\ CanAnalyze
     IN  /\ start => rafPending < MaxRaf
         /\ IF start
              THEN analyzeAudio(Silence)
              ELSE /\ audioData' = [audioData EXCEPT !.isPlaying = isActuallyPlaying]
                   /\ UNCHANGED <<animationFrameRef, rafRefLive>>
                   /\ Unsampled
         /\ rafPending' = IF start THEN rafPending + 1 ELSE rafPending
  /\ caught' = FALSE
  /\ UNCHANGED <<audioUrl, isInitializedRef, audioRef, paused, muted,
                 ctxState, audioContextRef, analyzerRef, initPc, initAborted, handlers,
                 listeners, overlay, overlayOnce, mediaEvq>>
  /\ Rest

\* a pending animation frame runs analyzeAudio() while the analyser has no signal:
\* publish, request the next frame
Tick ==
  /\ rafPending > 0
  /\ CanAnalyze
  /\ analyzeAudio(Silence)
  /\ UNCHANGED rafPending
  /\ caught' = FALSE
  /\ UNCHANGED <<audioUrl, isInitializedRef, audioRef, paused, muted,
                 ctxState, audioContextRef, analyzerRef, initPc, initAborted, handlers,
                 listeners, overlay, overlayOnce, mediaEvq, scPending>>
  /\ Rest

\* what getByteFrequencyData can write into dataArray now.  A context that is not
\* running renders nothing, so the analyser hands out the frame it handed out
\* before; with the context running and the element paused the analyser's input is
\* silent and no bin rises; with the gate Running the frame is whatever is played.
FramesNow ==
  IF ~ContextRunning THEN {dataArray}
  ELSE IF paused THEN {f \in Frames : \A i \in Bins : f[i] <= dataArray[i]}
  ELSE Frames

\* a pending animation frame runs analyzeAudio() on the frame the analyser hands out
SampleTick ==
  /\ nSteps < MaxSteps
  /\ rafPending > 0
  /\ CanAnalyze
  /\ \E data \in FramesNow : analyzeAudio(data)
  /\ nSteps' = nSteps + 1
  /\ caught' = FALSE
  /\ UNCHANGED <<audioUrl, isInitializedRef, audioRef, paused, muted,
                 ctxState, audioContextRef, analyzerRef, initPc, initAborted, handlers,
                 listeners, overlay, overlayOnce, mediaEvq, scPending, rafPending,
                 sampleRate, smoothedAudioValues>>
  /\ History

\* one useFrame callback of the Experiment component that consumes audioData
RenderFrame ==
  /\ nSteps < MaxSteps
  /\ smoothedAudioValues' = Rendered(smoothedAudioValues, audioData)
  /\ nSteps' = nSteps + 1
  /\ UNCHANGED <<audioUrl, isInitializedRef, audioRef, paused, muted,
                 ctxState, audioContextRef, analyzerRef, initPc, initAborted, handlers,
                 listeners, overlay, overlayOnce, mediaEvq, scPending, rafPending,
                 animationFrameRef, rafRefLive, audioData, caught, sampleRate>>
  /\ Unsampled
  /\ History

\* ------------------------------------------------- the platform's moves

\* the platform starts a suspended context: a new context that is allowed to start,
\* or the end of an interruption
ContextStarts(c) ==
  /\ c \in 1..Len(ctxState) /\ ctxState[c] = "suspended"
  /\ c = InitCtx => scPending < MaxSc
  /\ ctxState' = [ctxState EXCEPT ![c] = "running"]
  /\ scPending' = IF c = InitCtx THEN scPending + 1 ELSE scPending
  /\ caught' = FALSE
  /\ UNCHANGED <<audioUrl, isInitializedRef, audioRef, paused, muted,
                 audioContextRef, analyzerRef, animationFrameRef, rafRefLive, rafPending,
                 initPc, initAborted, handlers, listeners, overlay, overlayOnce, mediaEvq,
                 audioData>>
  /\ Unsampled /\ Rest

\* the platform suspends a running context (interruption, background tab)
PlatformSuspend(c) ==
  /\ c \in 1..Len(ctxState) /\ ctxState[c] = "running"
  /\ c = InitCtx => scPending < MaxSc
  /\ ctxState' = [ctxState EXCEPT ![c] = "suspended"]
  /\ scPending' = IF c = InitCtx THEN scPending + 1 ELSE scPending
  /\ caught' = FALSE
  /\ UNCHANGED <<audioUrl, isInitializedRef, audioRef, paused, muted,
                 audioContextRef, analyzerRef, animationFrameRef, rafRefLive, rafPending,
                 initPc, initAborted, handlers, listeners, overlay, overlayOnce, mediaEvq,
                 audioData>>
  /\ Unsampled /\ Rest

\* a context is closed from outside the hook
ContextClosed(c) ==
  /\ c \in 1..Len(ctxState) /\ ctxState[c] # "closed"
  /\ c = InitCtx => scPending < MaxSc
  /\ ctxState' = [ctxState EXCEPT ![c] = "closed"]
  /\ scPending' = IF c = InitCtx THEN scPending + 1 ELSE scPending
  /\ caught' = FALSE
  /\ UNCHANGED <<audioUrl, isInitializedRef, audioRef, paused, muted,
                 audioContextRef, analyzerRef, animationFrameRef, rafRefLive, rafPending,
                 initPc, initAborted, handlers, listeners, overlay, overlayOnce, mediaEvq,
                 audioData>>
  /\ Unsampled /\ Rest

\* the platform pauses the element (media key, media session)
PlatformPause ==
  /\ audioRef # 0 /\ ~paused
  /\ Len(mediaEvq) < MaxEvq
  /\ paused' = TRUE
  /\ mediaEvq' = Append(mediaEvq, "pause")
  /\ handlers' = AbortHandlers(handlers)
  /\ initAborted' = IF initPc = "awaitPlay" THEN TRUE ELSE initAborted
  /\ caught' = FALSE
  /\ UNCHANGED <<audioUrl, isInitializedRef, audioRef, muted, ctxState,
                 audioContextRef, analyzerRef, animationFrameRef, rafRefLive, rafPending,
                 initPc, listeners, overlay, overlayOnce, scPending, audioData>>
  /\ Unsampled /\ Rest

Next ==
  \/ Mount
  \/ ChangeSource
  \/ ReadyLoadedData
  \/ ReadyTimeout
  \/ ReadyError
  \/ InitPlayResolved
  \/ InitPlayRejected
  \/ \E t \in GestureTypes : GestureEvent(t)
  \/ OverlayClick
  \/ \E r \in HandlerRecs : ResumeResolved(r)
  \/ \E r \in HandlerRecs : ResumeRejected(r)
  \/ \E r \in HandlerRecs : PlayResolved(r)
  \/ \E r \in HandlerRecs : PlayRejected(r)
  \/ PlayEvent
  \/ PauseEvent
  \/ StateChangeEvent
  \/ Tick
  \/ \E c \in 1..MaxCtx : ContextStarts(c)
  \/ \E c \in 1..MaxCtx : PlatformSuspend(c)
  \/ \E c \in 1..MaxCtx : ContextClosed(c)
  \/ PlatformPause

Spec == Init /\ [][Next]_vars

\* the timer set by the readiness wait fires after 3000 ms when nothing else has
\* ended the wait
SpecTimed == Spec /\ WF_vars(ReadyTimeout)

\* ------------------------------------------------- the sampling loop at work
\* The session after a successful unlock: initializeAudio() done, gesture listeners
\* and overlay removed, element playing unmuted, context running, play and
\* statechange events dispatched, the sampling loop started, nothing sampled yet.
SamplerInit ==
  /\ audioUrl = 1 /\ isInitializedRef = TRUE
  /\ audioRef = 1 /\ paused = FALSE /\ muted = FALSE
  /\ ctxState = <<"running">> /\ audioContextRef = InitCtx /\ analyzerRef = InitCtx
  /\ initPc = "done" /\ initAborted = FALSE
  /\ handlers = EmptyBag /\ listeners = {}
  /\ overlay = "removed" /\ overlayOnce = FALSE
  /\ mediaEvq = <<>> /\ scPending = 0
  /\ rafPending = 1 /\ animationFrameRef = 1 /\ rafRefLive = TRUE
  /\ audioData = [volume |-> Zero, frequency |-> Zero, bass |-> Zero, mid |-> Zero,
                  treble |-> Zero, isPlaying |-> TRUE]
  /\ caught = FALSE
  /\ everRunning = TRUE
  /\ sampleRate \in SampleRates
  /\ dataArray = Silence
  /\ smoothedValues = AllZero
  /\ smoothedAudioValues = AllZero
  /\ nSteps = 0

SamplerNext ==
  \/ SampleTick
  \/ RenderFrame
  \/ PlatformPause
  \/ PauseEvent
  \/ \E c \in 1..MaxCtx : PlatformSuspend(c)
  \/ \E c \in 1..MaxCtx : ContextStarts(c)
  \/ StateChangeEvent

SpecSampler == SamplerInit /\ [][SamplerNext]_vars

\* ------------------------------------------------------------- the gate

QueuedEvents == {mediaEvq[i] : i \in 1..Len(mediaEvq)}

\* initialize() has built the element and the analysis graph and begun a play attempt
StartingPassed ==
  /\ isInitializedRef /\ audioRef # 0 /\ audioContextRef # 0 /\ analyzerRef # 0
  /\ initPc \in {"awaitPlay", "done"}

\* a gesture handler's play() has succeeded: the only way the listeners go away
Unlocked == initPc = "done" /\ listeners = {}

\* every queued play, pause and statechange event has been dispatched
EventsDispatched == mediaEvq = <<>> /\ scPending = 0

\* ------------------------------------------------------------- properties

\* C1 as stated: in every reachable state, isPlaying is true only if the element is
\* unpaused and the current context is running
C1_AsStated == audioData.isPlaying => GateRunning

\* C1 amended: isPlaying is true only if the gate is Running, except while a pause
\* or statechange event that republishes it is still queued, or, once the context
\* has been replaced, while the next sampler tick is pending
C1_IsPlayingOnlyWhenRunning ==
  audioData.isPlaying =>
    \/ GateRunning
    \/ "pause" \in QueuedEvents
    \/ scPending > 0
    \/ (audioContextRef # InitCtx /\ rafPending > 0)

\* isPlaying is published true while the gate is Running, nothing queued
C1_Witness == audioData.isPlaying /\ GateRunning /\ EventsDispatched

\* C2: the gate is Running (or isPlaying published true) only after initialize() has
\* built the element and graph and begun its play attempt
C2_RunningOnlyAfterStarting ==
  (GateRunning \/ audioData.isPlaying \/ ~paused) => StartingPassed

\* the gate is Running straight from Starting: the autoplay attempt is still awaited
C2_Witness == GateRunning /\ audioData.isPlaying /\ initPc = "awaitPlay" /\ ~tornDown

GestureSucceeds ==
  \E r \in BagToSet(handlers) :
    /\ r.kind = "gesture" /\ r.pc = "awaitPlay"
    /\ handlers' = DropHandler(handlers, r)
    /\ ~paused' /\ ~caught'

\* C4: the step in which a gesture handler's play() succeeds leaves no gesture
\* listener registered, and none is registered again afterwards
C4_ListenersRemovedOnUnlock ==
  [][/\ GestureSucceeds => listeners' = {}
     /\ Unlocked => listeners' = {}]_vars

\* the listeners are gone after an unlock
C4_Witness == Unlocked /\ ~paused

\* C5: a step that ends in the catch block of a gesture handler leaves every
\* listener registered, initialize() where it was, and the handler gone
C5_FailureKeepsListeners ==
  [][caught' => /\ listeners' = listeners
                /\ initPc' = initPc
                /\ BagCardinality(handlers') <= BagCardinality(handlers)]_vars

\* a gesture handler has just failed and all five listeners are still registered
C5_Witness == caught /\ listeners = GestureTypes

\* C6 as stated: after teardown no animation frame of the sampler is pending, so no
\* further tick runs and the loop publishes nothing
C6_AsStated == tornDown => rafPending = 0

\* C7 as stated: after teardown no document-level gesture listener remains registered
C7_AsStated == tornDown => listeners = {}

\* C8 as stated: after teardown the media element is paused and stays paused
C8_AsStated == tornDown => paused

\* C9: the step that tears the session down changes neither the state of any
\* analysis context nor the context the session refers to
C9_TeardownLeavesContext ==
  [][audioUrl' # audioUrl =>
       /\ ctxState' = ctxState
       /\ audioContextRef' = audioContextRef
       /\ analyzerRef' = analyzerRef]_vars

\* torn down with the element paused by the cleanup and the context still running
C9_Witness == tornDown /\ paused /\ ContextRunning /\ "pause" \in QueuedEvents

\* C10 as stated: once the effect has re-run for a new source identifier, the media
\* element of the session is one built for that identifier
C10_AsStated == tornDown => audioRef = audioUrl

\* the gate awaits a gesture after an autoplay attempt that never played: the
\* element is paused and muted, no play event was ever queued, the listeners are on
AwaitingUserGesture ==
  /\ initPc = "done" /\ paused /\ muted
  /\ listeners = GestureTypes
  /\ animationFrameRef = 0 /\ mediaEvq = <<>>

\* C11: whichever way the play attempt of initializeAudio() ends (resolved, refused
\* by policy, rejected, aborted), initializeAudio() completes instead of failing and
\* all five gesture listeners are registered, the element left as the attempt left it
C11_AutoplayRejectionAbsorbed ==
  [][(muted' /\ initPc \in {"awaitReady", "awaitPlay"}
             /\ initPc' \notin {"awaitReady", "awaitPlay"})
       => (initPc' = "done" /\ listeners' = GestureTypes /\ paused' = paused)]_vars

\* the autoplay attempt was refused and the gate awaits a gesture
C11_Witness == AwaitingUserGesture /\ ~tornDown /\ ~audioData.isPlaying

\* C12 as stated: a sampler tick has executed (animationFrameRef is set by the first
\* analyzeAudio) only in a session whose gate has been Running
C12_AsStated == animationFrameRef # 0 => everRunning

\* C13: a pending sampler frame goes away only in the step that tears the session
\* down (a tick requests its successor, a pause event cancels nothing), and while a
\* frame is pending the tick's guard on the refs holds
C13_LoopKeepsRunning ==
  [][/\ rafPending' < rafPending => audioUrl' # audioUrl
     /\ rafPending' > 0 => CanAnalyze']_vars

\* the loop is still scheduled after the pause event has been dispatched
C13_Witness ==
  /\ rafPending > 0 /\ paused /\ ~audioData.isPlaying
  /\ EventsDispatched /\ ~tornDown /\ everRunning

\* C14: on every sampler tick each of the four channels becomes
\* smoothed * factor + raw * (1 - factor), with factor 0.8 for volume, 0.85 for
\* bass, 0.7 for mid and 0.6 for treble, raw being the value measured on the frame
\* pulled on that tick; a channel's new value depends on no other channel.  Only a
\* tick writes dataArray and smoothedValues.
C14_Percent == [volume |-> 80, bass |-> 85, mid |-> 70, treble |-> 60]
C14_SmoothingRecurrence ==
  [][\A c \in Channels :
       LET raw == Measured[dataArray'].raw[c]
       IN  RMul(smoothedValues'[c], Rat(100, 1)) =
             RAdd(RMul(smoothedValues[c], Rat(C14_Percent[c], 1)),
                  RMul(raw, Rat(100 - C14_Percent[c], 1)))]_<<dataArray, smoothedValues>>

\* a tick on a bass-only frame while the treble channel still carries an earlier frame
C14_Witness ==
  /\ dataArray = BassOnly(MaxSampleValue)
  /\ RLess(Zero, smoothedValues.treble)
  /\ RLess(smoothedValues.treble, smoothedValues.bass)
  /\ audioData.bass = smoothedValues.bass

C16_Decays(old, new) ==
  \A c \in Channels :
    /\ RLeq(Zero, new[c])
    /\ IF RLess(Zero, old[c]) THEN RLess(new[c], old[c]) ELSE new[c] = old[c]
C17_InUnit(x) == RLeq(Zero, x) /\ RLeq(x, One)
C17_PublishedInRange ==
  /\ \A c \in Channels :
       /\ C17_InUnit(Measured[dataArray].raw[c])
       /\ C17_InUnit(smoothedValues[c])
       /\ C17_InUnit(audioData[c])
  /\ RLeq(Zero, audioData.frequency)

\* ticks on full-scale frames: the raw values are at the upper end of the range and
\* the published treble has come more than half way
C17_Witness ==
  /\ dataArray = Uniform(MaxSampleValue)
  /\ Measured[dataArray].raw.volume = One
  /\ RLess(Rat(1, 2), audioData.treble)
  /\ RLess(audioData.bass, audioData.treble)

\* C18: on every tick each channel moves toward the raw value v of that tick and
\* not beyond it: a value equal to v stays v, a value below v rises and stays below
\* v, a value above v falls and stays above v, and the distance to v shrinks to at
\* most 0.85 of what it was; so with v held constant the channel approaches v
\* monotonically, without overshoot, and is within any epsilon > 0 of v after
\* finitely many ticks.
C18_ConvergesToConstantInput ==
  [][\A c \in Channels :
       LET v == Measured[dataArray'].raw[c]
           s == smoothedValues[c]
           t == smoothedValues'[c]
       IN  /\ s = v => t = v
           /\ RLess(s, v) =>
                /\ RLess(s, t) /\ RLess(t, v)
                /\ RLeq(RMul(RSub(v, t), Rat(20, 1)), RMul(RSub(v, s), Rat(17, 1)))
           /\ RLess(v, s) =>
                /\ RLess(t, s) /\ RLess(v, t)
                /\ RLeq(RMul(RSub(t, v), Rat(20, 1)), RMul(RSub(s, v), Rat(17, 1)))
    ]_<<dataArray, smoothedValues>>

\* two ticks in a row on the same frame, bins 10..39 at 204: raw mid 0.8, smoothed
\* mid 0.408 after 0.24, smoothed bass 0.0555 after 0.03 toward 0.2
C18_Witness ==
  /\ dataArray = Levels(51, 204, MaxSampleValue)
  /\ Measured[dataArray].raw.mid = Rat(4, 5)
  /\ smoothedValues.mid = Rat(51, 125)
  /\ smoothedValues.bass = Rat(111, 2000)

\* C19: when the frame last pulled has a single largest bin k, the published
\* frequency, in kHz, is (k / N) * (R / 2) / 1000 with N the frame length and R the
\* context's sample rate; the published frequency belongs to that same frame.
C19_PeakBins ==
  [f \in Frames |->
     LET levels == {f[i] : i \in Bins}
         top == CHOOSE v \in levels : \A w \in levels : w <= v
     IN  {k \in Bins : f[k] = top}]
C19_DominantFrequency ==
  Cardinality(C19_PeakBins[dataArray]) = 1 =>
    \A k \in C19_PeakBins[dataArray] :
      RMul(audioData.frequency, Rat(frequencyBinCount * 2 * 1000, 1)) = Rat(k * sampleRate, 1)

\* a frame whose only nonzero bin is bin 64 of 128, at 48000 Hz: 12 kHz
C19_Witness ==
  /\ dataArray = Peak(64, MaxSampleValue, 0)
  /\ sampleRate = 48000
  /\ audioData.frequency = Rat(12, 1)

\* C20: the raw bass, mid and treble of a frame are the means of its bins 0..9,
\* 10..39 and 40..127, each divided by 255; the three index ranges are fixed, follow
\* each other without gap or overlap and lie within the frame.
C20_Ranges == [bass |-> 0..9, mid |-> 10..39, treble |-> 40..127]
C20_Total(f, S) == Cardinality({<<i, u>> \in S \X (1..MaxSampleValue) : u <= f[i]})
C20_Means ==
  [f \in Frames |->
     [c \in DOMAIN C20_Ranges |->
        Rat(C20_Total(f, C20_Ranges[c]), Cardinality(C20_Ranges[c]) * MaxSampleValue)]]
C20_RangesPartitionFrame ==
  /\ \A c \in DOMAIN C20_Ranges :
       /\ C20_Ranges[c] \subseteq Bins
       /\ \A e \in DOMAIN C20_Ranges \ {c} : C20_Ranges[c] \cap C20_Ranges[e] = {}
  /\ UNION {C20_Ranges[c] : c \in DOMAIN C20_Ranges} = Bins
C20_BandMeans ==
  /\ \A c \in DOMAIN C20_Ranges :
       Measured[dataArray].raw[c] = C20_Means[dataArray][c]
  /\ C20_RangesPartitionFrame

\* a tick on a frame with a different level in each range: 51, 204 and 255
C20_Witness ==
  /\ dataArray = Levels(51, 204, MaxSampleValue)
  /\ Measured[dataArray].raw.bass = Rat(1, 5)
  /\ Measured[dataArray].raw.mid = Rat(4, 5)
  /\ Measured[dataArray].raw.treble = One
  /\ audioData.mid = Rat(6, 25)

\* C21 as stated: every step in which ensureAudioContextActive() returns true leaves
\* the current context running.  It returns true after replacing a closed context
\* (the step gives audioContextRef and analyzerRef a new context) and after the
\* resume() it awaited has resolved (the step takes a handler from awaitResume to
\* its pending play()).  Violated: the replacement is returned as active while it
\* is still suspended.
C21_Replaced ==
  /\ audioContextRef # 0
  /\ audioContextRef' # audioContextRef
  /\ analyzerRef' = audioContextRef'
C21_Resumed ==
  \E r \in BagToSet(handlers) :
    /\ r.pc = "awaitResume"
    /\ handlers' = AddHandler(DropHandler(handlers, r),
                              [kind |-> r.kind, pc |-> "awaitPlay", ctx |-> 0])
C21_AsStated ==
  [][(C21_Replaced \/ C21_Resumed) => ContextRunning']_vars

\* C22: the readiness wait of initializeAudio() always ends, by the timeout when
\* no loadeddata and no error event ends it before; a wait that ends otherwise than
\* by the error event goes on to the play attempt of startAudio(), and once the
\* wait has ended initializeAudio() does not fail any more.
C22_ReadinessWaitEnds ==
  /\ (initPc = "awaitReady") ~> (initPc # "awaitReady")
  /\ [][/\ (initPc = "awaitReady" /\ initPc' \notin {"awaitReady", "failed"}) => muted'
        /\ initPc \in {"awaitPlay", "done"} => initPc' # "failed"]_vars

\* the wait has ended and the muted play attempt is under way
C22_Witness == initPc = "awaitPlay" /\ muted /\ ~paused /\ ~tornDown /\ ~initAborted

\* C23: when the element reports an error during the readiness wait,
\* initializeAudio() ends rejected; in every state that follows, no play attempt has
\* been made (the element is paused and unmuted, no media event is queued, no
\* sampler frame is pending), no gesture listener and no overlay is registered, no
\* unlock handler runs, and initializeAudio() stays failed, also when the effect
\* runs again.
C23_LoadErrorEndsInitialize ==
  /\ [](initPc = "failed" =>
          /\ paused /\ ~muted /\ QueuedEvents \subseteq {"pause"}
          /\ listeners = {} /\ overlay = "none" /\ ~overlayOnce
          /\ handlers = EmptyBag
          /\ rafPending = 0 /\ animationFrameRef = 0
          /\ ~audioData.isPlaying)
  /\ [][initPc = "failed" => initPc' = "failed"]_vars

\* initializeAudio() has failed and the effect has run again for another source
C23_Witness == initPc = "failed" /\ audioUrl > 1 /\ isInitializedRef

\* C24 as stated: at most one asynchronous operation that writes the element or
\* the context reference is in flight: the pending play attempt of
\* initializeAudio() and the unlock handlers waiting on resume() or play() number
\* at most one together.  Violated: each event type of one gesture starts a
\* handler of its own.
C24_InFlight ==
  BagCardinality(handlers) + (IF initPc = "awaitPlay" THEN 1 ELSE 0)
C24_AsStated == C24_InFlight <= 1

\* C25 as stated: while the gate awaits a user gesture (the play attempt of
\* initializeAudio() has ended and the gate of the live session has never been
\* Running), the five document-level gesture listeners are registered and the
\* click-to-start overlay is present.
C25_AwaitingGesture == initPc = "done" /\ ~everRunning /\ ~tornDown
C25_AsStated ==
  C25_AwaitingGesture => (listeners = GestureTypes /\ overlay = "present")

\* C26: until the first sampler tick has run (animationFrameRef is still unset),
\* the published signal is silent: volume, bass, mid, treble and frequency are 0 and
\* isPlaying is false.
C26_SilentBeforeFirstTick ==
  animationFrameRef = 0 =>
    /\ \A c \in Channels : audioData[c] = Zero
    /\ audioData.frequency = Zero
    /\ ~audioData.isPlaying

\* autoplay was refused and a gesture's unlock attempt has failed: nothing has been
\* sampled, the signal is still at its defaults
C26_Witness ==
  /\ animationFrameRef = 0 /\ initPc = "done" /\ caught /\ ~muted /\ paused
  /\ audioData.volume = Zero /\ ~audioData.isPlaying

\* C27: at most one animation-frame callback of the sampler is pending in every
\* reachable state.
C27_OneLoop == rafPending <= 1

\* the loop is running, and a play event and a statechange event are both waiting
\* to be dispatched to listeners that can call startAnalysis()
C27_Witness ==
  /\ rafPending = 1 /\ animationFrameRef # 0
  /\ "play" \in QueuedEvents /\ scPending > 0 /\ ~tornDown

\* C28 as stated: in every state of a live session that follows a successful gesture
\* unlock (the handler's play() has resolved and it has removed the gesture
\* listeners), the click-to-start overlay is not present.  Violated: a keydown or
\* touch unlock of an element that muted autoplay had already started fires no play
\* event, and only a play event or a click on the overlay removes the overlay.
C28_AsStated == (Unlocked /\ ~tornDown) => overlay # "present"

\* C29 as stated: once the context has been replaced, the play listener and the
\* statechange listener publish isPlaying from the state of the current context,
\* and every state change of the current context queues a statechange event for
\* the hook's listener.  Violated: both listeners read the context they were
\* created with, and the replacement has no statechange listener.
C29_ListenerRuns ==
  \/ scPending' < scPending
  \/ mediaEvq # <<>> /\ Head(mediaEvq) = "play" /\ mediaEvq' = Tail(mediaEvq)
C29_AsStated ==
  [][audioContextRef > InitCtx =>
       /\ C29_ListenerRuns =>
            audioData'.isPlaying = (~paused /\ ctxState[audioContextRef] = "running")
       /\ (audioContextRef' = audioContextRef
             /\ ctxState'[audioContextRef] # ctxState[audioContextRef]) =>
            scPending' = scPending + 1]_vars

\* C30 as stated: in every state of a live session in which the gesture listeners
\* have been unregistered, the current analysis context is running.
C30_AsStated == (Unlocked /\ ~tornDown) => ContextRunning

====
